---- MODULE Spec2Model ----
(***************************************************************************)
(* Nexus Membership Bot: the /stripe-webhook handlers that turn Stripe     *)
(* subscription events into Telegram membership actions.                   *)
(*                                                                         *)
(* Three deployed variants of the handler are modelled:                    *)
(*   "server_v1"  src/server.js lines 38-97                                 *)
(*   "server_v2"  src/server.js lines 326-381 (helpers at 255-320)          *)
(*   "part_000"   src/unnamed/part_000 lines 36-88 (helpers at 149-186)     *)
(* A handler is a sequence of steps separated by its awaits; every         *)
(* outbound call is issued in one step and answered in a later one, with   *)
(* the answer chosen by the external service.                              *)
(***************************************************************************)
EXTENDS Integers, Sequences, FiniteSets, TLC

\* ---------------------------------------------------------------- bounds
MaxNow == 1            \* the clock (epoch seconds) runs over 0..MaxNow

\* ------------------------------------------------------ program constants
INVITE_TTL == 1800     \* expire_date: now + 1800 (30 min)
MEMBER_LIMIT == 1      \* member_limit: 1
GROUP_CHAT_ID == "-1003037084693"

\* JavaScript's undefined: the value of a missing key, of an unset
\* environment variable and of a ?. chain that stopped
Undefined == "<undefined>"

\* JavaScript's null, as a JSON null arrives: falsy like undefined, and
\* different from it under ===
Null == "<null>"

\* a value is truthy unless it is undefined, null or the empty string
Truthy(v) == v # Undefined /\ v # Null /\ v # ""

\* a || b
OrElse(a, b) == IF Truthy(a) THEN a ELSE b

\* ------------------------------------------------------------ input sets
Variants == {"server_v1", "server_v2", "part_000"}
Requests == {"r1"}
EventTypes == {"checkout.session.completed", "invoice.payment_succeeded",
               "customer.subscription.deleted", "customer.updated",
               "charge.refunded"}
TelegramIds == {"12345"}
TidVals == {Undefined, ""} \cup TelegramIds
PriceIds == {"price_premium", "price_generic", "price_other"}
PriceVals == {Undefined, Null} \cup PriceIds
SubIds == {"sub_1"}
Emails == {Undefined, "buyer@example.com"}
Links == {"https://t.me/+inviteA", "https://t.me/+inviteB"}

\* labels
PremiumLabel == "Premium Plan (E24.99/month)"
GenericLabel == "Generic Plan (E9.99/month)"
FallbackLabel == "Membership"

\* a value of a JSON request body: its JavaScript type and its String(...)
JsUndef == [t |-> "undefined", s |-> "undefined"]
JsStr(str) == [t |-> "string", s |-> str]
JsNum(digits) == [t |-> "number", s |-> digits]
JsObject == [t |-> "object", s |-> "[object Object]"]

\* !v is false: a non-empty string, or a number other than 0
JsTruthy(v) ==
  \/ v.t = "string" /\ v.s # ""
  \/ v.t = "number" /\ v.s # "0"
  \/ v.t = "object"

\* String(v)
String(v) == v.s

BodyPriceIds == {JsUndef, JsStr(""), JsStr("price_premium"), JsStr("price_generic")}
BodyTelegramIds == {JsUndef, JsStr(""), JsStr("12345"), JsNum("12345"), JsNum("0"),
                    JsNum("-1003037084693"), JsObject}
SessionUrls == {"https://checkout.stripe.com/c/pay/cs_1"}

\* ---------------------------------------------------------------- records
NoEvent == [route |-> Undefined,
            body_priceId |-> JsUndef, body_telegramId |-> JsUndef,
            contentType |-> "application/json",
            customer_email |-> Undefined,
            update |-> [message |-> FALSE, text |-> Undefined, chat |-> FALSE,
                        callback_data |-> Undefined, from |-> FALSE],
            sigValid |-> FALSE, type |-> Undefined,
            metadata_telegram_id |-> Undefined,
            subscription |-> Undefined,
            subscription_metadata_telegram_id |-> Undefined,
            metadata_tier |-> Undefined,
            mode |-> Undefined,
            line_items_price |-> Undefined,
            lines_price |-> Undefined,
            metadata_price_id |-> Undefined]

NoSub == [present |-> FALSE, metadata_telegram_id |-> Undefined,
          price |-> Undefined]

InitLoc == [telegramId |-> Undefined, sub |-> NoSub, priceId |-> Undefined,
            tierLabel |-> Undefined, invite |-> Undefined,
            layer |-> 0, body |-> "stream"]

VARIABLES
  variant,            \* which handler file is deployed
  PREMIUM_PRICE_ID,   \* process.env.PREMIUM_PRICE_ID (Undefined when unset)
  GENERIC_PRICE_ID,   \* process.env.GENERIC_PRICE_ID (Undefined when unset)
  stripeSub,          \* Stripe's subscription object behind the id "sub_1"
  now,                \* Math.floor(Date.now() / 1000)
  issued,             \* Telegram: invite links created so far
  group,              \* Telegram: status of each user in the group
  pc,                 \* per request: position of the handler
  event,              \* per request: the request (signature flag + event)
  loc,                \* per request: the handler's local variables
  calls,              \* per request: outbound calls, in order, with results
  responses           \* per request: HTTP responses sent, in order

vars == <<variant, PREMIUM_PRICE_ID, GENERIC_PRICE_ID, stripeSub, now, issued,
          group, pc, event, loc, calls, responses>>

env == <<variant, PREMIUM_PRICE_ID, GENERIC_PRICE_ID, stripeSub>>

\* one outbound call, stamped with the time it is issued; result is
\* "pending" until the service answers
Call(api, chat, user, limit, expire, text, subId) ==
  [api |-> api, chat_id |-> chat, user_id |-> user, member_limit |-> limit,
   expire_date |-> expire, text |-> text, sub_id |-> subId,
   at |-> now, result |-> "pending", link |-> Undefined,
   price |-> Undefined, metadata_telegram_id |-> Undefined,
   metadata_price_id |-> Undefined,
   subscription_metadata_telegram_id |-> Undefined,
   body_priceId |-> JsUndef, body_telegramId |-> JsUndef,
   reply_markup |-> << >>]

MessagingApis == {"createChatInviteLink", "sendMessage",
                  "banChatMember", "unbanChatMember"}

\* ------------------------------------------------------------- pure parts
\* getTierFromPrice (server_v2)
getTierFromPrice(priceId) ==
  IF priceId = PREMIUM_PRICE_ID THEN PremiumLabel
  ELSE IF priceId = GENERIC_PRICE_ID THEN GenericLabel
  ELSE FallbackLabel


\* the inline classifier of part_001 531-534
tierLabelOf(priceId) ==
  IF priceId = PREMIUM_PRICE_ID THEN "Premium plan (E24.99/month)"
  ELSE IF priceId = GENERIC_PRICE_ID THEN "Generic plan (E9.99/month)"
  ELSE FallbackLabel

\* variant of InviteText: the announcement names no tier
InviteText_NoTier(v, tierLabel, invite) ==
  <<" Membership activated.\nJoin the group: ", invite>>

\* the invite announcement, as the list of its template pieces
\* (the leading check-mark emoji of the source is left out of the pieces)
InviteText(v, tierLabel, invite) ==
  IF v = "server_v2"
    THEN <<" ", tierLabel, " activated.\nJoin the group: ", invite,
           "\n\n*Reminder:* digital membership; does not guarantee employment.">>
  ELSE IF v = "part_001_c"
    THEN <<" ", tierLabel, " activated.\nJoin the group: ", invite,
           "\n\nReminder: digital membership; does not guarantee employment.">>
  ELSE IF v = "server_v1"
    THEN <<" *", tierLabel, "* ativado.\nEntre no grupo: ", invite>>
  ELSE <<" *", tierLabel, "* ativado!\n\nEntre no grupo: ", invite,
         "\n\n_Lembrete: memberships digitais nao garantem emprego._">>

\* variant of OnInviteThrow: sendInvite without its try/catch
OnInviteThrow_Uncaught(v) == "fail"

\* where a thrown error of a Telegram call inside the invite lands:
\* server_v2's sendInvite catches it; the other two variants let it reach
\* the handler's catch, which answers 500;
\* the catch of the handler of part_001 118-175 answers 200 with the same
\* body as the acknowledgment; the handler of part_001 492-557 has no try
\* block around its awaits (502-552), so the error rejects the handler's
\* promise, which nothing handles: the request is abandoned unanswered
OnInviteThrow(v) ==
  IF v \in {"server_v2", "part_001_a"} THEN "respond"
  ELSE IF v = "part_001_c" THEN "abandoned"
  ELSE "fail"

\* where a thrown error of banChatMember or unbanChatMember lands:
\* kickFromGroup of server.js 288-303 catches it; part_001 543-552 does not
OnKickThrow(v) == IF v = "part_001_c" THEN "abandoned" ELSE "respond"

\* variant of OnRetrieveThrow: a failed retrieval is tried again
OnRetrieveThrow_Retry(v) == "fetch_sub"

\* where a thrown error of stripe.subscriptions.retrieve lands:
\* server_v2's fetchSubscription catches it and returns null
OnRetrieveThrow(v) == IF v = "server_v2" THEN "after_sub" ELSE "fail"

\* variant of AfterBan: the member is banned and never unbanned
AfterBan_NoUnban(v, out) == "respond"

\* kickFromGroup: what follows the answer to banChatMember.  A resolved
\* fetch (also one carrying a rejection) falls through to the unban call; a
\* thrown error leaves the try block.  "lost" is a ban that took effect on
\* Telegram while its response never arrived: the fetch throws as well
AfterBan(v, out) ==
  IF out \in {"throw", "lost"} THEN OnKickThrow(v) ELSE "unban"

\* what follows the answer to unbanChatMember
AfterUnban(v, out) == IF out = "throw" THEN OnKickThrow(v) ELSE "respond"

\* variant of KindOf: the default label shares the body of the
\* customer.subscription.deleted case
KindOf_Fallthrough(v, ty) ==
  IF ty = "checkout.session.completed" THEN "checkout"
  ELSE IF v = "server_v2" /\ ty = "invoice.payment_succeeded" THEN "invoice"
  ELSE IF v = "server_v2" THEN "deleted"
  ELSE "other"

\* the branch of the switch (or if) that an event type selects; part_001
\* 492-557 has no branch for checkout.session.completed
KindOf(v, ty) ==
  IF v # "part_001_c" /\ ty = "checkout.session.completed" THEN "checkout"
  ELSE IF v \in {"server_v2", "part_001_c"} /\ ty = "invoice.payment_succeeded"
    THEN "invoice"
  ELSE IF v \in {"server_v2", "part_001_c"}
          /\ ty = "customer.subscription.deleted"
    THEN "deleted"
  ELSE "other"

\* variant of ActOn: the action is taken without the test of telegramId
ActOn_Always(telegramId, action) == action

\* variant of InvoiceIdentity: the invoice's own field is preferred
InvoiceIdentity_InvoiceFirst(sub, inv) ==
  OrElse(inv.metadata_telegram_id, sub.metadata_telegram_id)

\* invoice.payment_succeeded:
\* sub?.metadata?.telegram_id || inv.metadata?.telegram_id
InvoiceIdentity(sub, inv) ==
  OrElse(sub.metadata_telegram_id, inv.metadata_telegram_id)

\* if (telegramId) <action> else console.warn(...)
ActOn(telegramId, action) == IF Truthy(telegramId) THEN action ELSE "respond"

\* the events each variant may receive; an event's object carries the fields
\* of its Stripe type (session, invoice, subscription, other)
SessionObjects(v) ==
  IF v = "server_v1"
    THEN {[NoEvent EXCEPT !.metadata_telegram_id = t, !.subscription = s,
                          !.subscription_metadata_telegram_id = st,
                          !.metadata_tier = mt, !.mode = m] :
            t \in TidVals, s \in {Undefined} \cup SubIds, st \in TidVals,
            mt \in {Undefined, "VIP"}, m \in {"subscription", "payment"}}
  ELSE IF v = "part_000"
    THEN {[NoEvent EXCEPT !.metadata_telegram_id = t, !.subscription = s,
                          !.line_items_price = lp, !.metadata_price_id = mp] :
            t \in TidVals, s \in {Undefined} \cup SubIds,
            lp \in {Undefined, "price_premium"}, mp \in PriceVals}
  ELSE {[NoEvent EXCEPT !.metadata_telegram_id = t, !.subscription = s] :
            t \in TidVals, s \in {Undefined} \cup SubIds}

EventObjects(v, type) ==
  IF type = "checkout.session.completed" THEN SessionObjects(v)
  ELSE IF type = "invoice.payment_succeeded" /\ v = "part_001_c"
    THEN {[NoEvent EXCEPT !.metadata_telegram_id = t, !.lines_price = p] :
            t \in TidVals, p \in PriceVals}
  ELSE IF type = "invoice.payment_succeeded" /\ v = "part_001_a"
    THEN {[NoEvent EXCEPT !.metadata_telegram_id = t, !.customer_email = m] :
            t \in TidVals, m \in Emails}
  ELSE IF type = "invoice.payment_succeeded"
    THEN {[NoEvent EXCEPT !.metadata_telegram_id = t, !.subscription = s] :
            t \in TidVals, s \in {Undefined} \cup SubIds}
  ELSE {[NoEvent EXCEPT !.metadata_telegram_id = t] : t \in TidVals}

Events(v) ==
  UNION {{[o EXCEPT !.type = ty, !.sigValid = sg] : o \in EventObjects(v, ty)} :
           ty \in EventTypes, sg \in BOOLEAN}

\* ------------------------------------------------------------------- Init
Init ==
  /\ variant \in Variants
  /\ PREMIUM_PRICE_ID \in {Undefined, "price_premium"}
  /\ GENERIC_PRICE_ID \in {Undefined, "price_generic"}
  /\ stripeSub \in [present : {TRUE}, metadata_telegram_id : TidVals,
                    price : PriceVals]
  /\ now = 0
  /\ issued = {}
  /\ group = [u \in TelegramIds |-> "member"]
  /\ pc = [r \in Requests |-> "idle"]
  /\ event = [r \in Requests |-> NoEvent]
  /\ loc = [r \in Requests |-> InitLoc]
  /\ calls = [r \in Requests |-> << >>]
  /\ responses = [r \in Requests |-> << >>]

\* ---------------------------------------------------------------- helpers
\* Telegram's group after a banChatMember or unbanChatMember request for
\* user u with outcome out.  A ban that is carried out (also one whose
\* answer is lost) removes and bans the user; an unban without
\* only_if_banned leaves the user outside the group and free to join; a
\* rejected request or one that never arrived changes nothing.
GroupAfter(g, api, u, out) ==
  IF u \notin DOMAIN g THEN g
  ELSE IF api = "banChatMember" /\ out \in {"ok", "lost"}
    THEN [g EXCEPT ![u] = "banned"]
  ELSE IF api = "unbanChatMember" /\ out = "ok"
    THEN [g EXCEPT ![u] = "left"]
  ELSE g

Goto(r, label) == pc' = [pc EXCEPT ![r] = label]

Issue(r, c) == calls' = [calls EXCEPT ![r] = Append(@, c)]

\* the last call of r is answered with out (and, for a created invite, link)
Answer(r, out, link) ==
  calls' = [calls EXCEPT ![r][Len(calls[r])].result = out,
                         ![r][Len(calls[r])].link = link]

Send(r, status, body) ==
  responses' = [responses EXCEPT ![r] = Append(@, [status |-> status, body |-> body])]

\* ---------------------------------------------------------------- actions
\* time passes
Tick ==
  /\ now < MaxNow
  /\ now' = now + 1
  /\ UNCHANGED <<env, issued, group, pc, event, loc, calls, responses>>

\* a POST /stripe-webhook arrives
Receive(r) ==
  /\ pc[r] = "idle"
  /\ \E e \in Events(variant) : event' = [event EXCEPT ![r] = e]
  /\ Goto(r, "verify")
  /\ UNCHANGED <<env, now, issued, group, loc, calls, responses>>

\* variant of VerifySignature: the event is parsed without checking the
\* signature
VerifySignature_Unchecked(r) ==
  /\ pc[r] = "verify"
  /\ Goto(r, "dispatch")
  /\ UNCHANGED <<env, now, issued, group, event, loc, calls, responses>>

\* stripe.webhooks.constructEvent inside the first try block
VerifySignature(r) ==
  /\ pc[r] = "verify"
  /\ IF event[r].sigValid
       THEN /\ Goto(r, "dispatch")
            /\ UNCHANGED responses
       ELSE /\ Send(r, 400, "Webhook error")
            /\ Goto(r, "done")
  /\ UNCHANGED <<env, now, issued, group, event, loc, calls>>


\* the switch / if on event.type, up to the handler's first await
Dispatch(r) ==
  LET e == event[r]
      kind == KindOf(variant, e.type)
  IN
  /\ pc[r] = "dispatch"
  /\ IF variant = "server_v2" /\ kind = "checkout"
       THEN /\ loc' = [loc EXCEPT ![r].telegramId = e.metadata_telegram_id]
            /\ Goto(r, "fetch_sub")
     ELSE IF variant = "server_v2" /\ kind = "invoice"
       THEN /\ UNCHANGED loc
            /\ Goto(r, "fetch_sub")
     ELSE IF variant \in {"server_v2", "part_001_c"} /\ kind = "deleted"
       THEN /\ loc' = [loc EXCEPT ![r].telegramId = e.metadata_telegram_id]
            /\ Goto(r, ActOn(e.metadata_telegram_id, "ban"))
     ELSE IF variant = "part_001_c" /\ kind = "invoice"
       THEN /\ loc' = [loc EXCEPT
                 ![r].telegramId = e.metadata_telegram_id,
                 ![r].priceId = e.lines_price,
                 ![r].tierLabel =
                     IF Truthy(e.metadata_telegram_id) /\ Truthy(e.lines_price)
                       THEN tierLabelOf(e.lines_price) ELSE @]
            /\ Goto(r, IF Truthy(e.lines_price)
                         THEN ActOn(e.metadata_telegram_id, "create")
                         ELSE "respond")
     ELSE IF variant = "server_v1" /\ kind = "checkout"
       THEN LET tid == OrElse(OrElse(e.metadata_telegram_id,
                                     e.subscription_metadata_telegram_id),
                              Undefined)
                tier == OrElse(e.metadata_tier,
                               IF e.mode = "subscription" THEN "Premium"
                                                          ELSE "Generic")
            IN /\ loc' = [loc EXCEPT ![r].telegramId = tid, ![r].tierLabel = tier]
               /\ Goto(r, ActOn(tid, "create"))
     ELSE IF variant = "part_000" /\ kind = "checkout"
       THEN /\ loc' = [loc EXCEPT ![r].telegramId = e.metadata_telegram_id]
            /\ Goto(r, IF ~Truthy(e.metadata_telegram_id) /\ Truthy(e.subscription)
                         THEN "fetch_sub" ELSE "after_sub")
     ELSE /\ UNCHANGED loc
          /\ Goto(r, "respond")
  /\ UNCHANGED <<env, now, issued, group, event, calls, responses>>

\* fetchSubscription up to its await (server_v2); the bare
\* stripe.subscriptions.retrieve of part_000
FetchSubscription(r) ==
  /\ pc[r] = "fetch_sub"
  /\ IF variant = "server_v2" /\ ~Truthy(event[r].subscription)
       THEN /\ loc' = [loc EXCEPT ![r].sub = NoSub]
            /\ Goto(r, "after_sub")
            /\ UNCHANGED calls
       ELSE /\ Issue(r, Call("subscriptions.retrieve", Undefined, Undefined, 0, 0,
                             << >>, event[r].subscription))
            /\ Goto(r, "await_sub")
            /\ UNCHANGED loc
  /\ UNCHANGED <<env, now, issued, group, event, responses>>

\* Stripe answers the retrieval: the subscription object, or an error
SubscriptionReturns(r) ==
  /\ pc[r] = "await_sub"
  /\ \E out \in {"ok", "throw"} :
       /\ Answer(r, out, Undefined)
       /\ IF out = "ok"
            THEN /\ loc' = [loc EXCEPT
                      ![r].sub = stripeSub,
                      ![r].telegramId =
                         IF variant = "part_000"
                           THEN stripeSub.metadata_telegram_id ELSE @]
                 /\ Goto(r, "after_sub")
            ELSE /\ loc' = [loc EXCEPT ![r].sub = NoSub]
                 /\ Goto(r, OnRetrieveThrow(variant))
  /\ UNCHANGED <<env, now, issued, group, event, responses>>

\* variant of Classify: a renewal is answered with a new invite
Classify_RenewalInvites(r) ==
  LET e == event[r]
      l == loc[r]
  IN
  /\ pc[r] = "after_sub"
  /\ loc' = [loc EXCEPT
        ![r].telegramId = IF KindOf(variant, e.type) = "invoice"
                            THEN InvoiceIdentity(l.sub, e) ELSE @,
        ![r].priceId = l.sub.price,
        ![r].tierLabel = getTierFromPrice(l.sub.price)]
  /\ Goto(r, ActOn(loc'[r].telegramId, "create"))
  /\ UNCHANGED <<env, now, issued, group, event, calls, responses>>

\* the code between the subscription lookup and the membership action
Classify(r) ==
  LET e == event[r]
      l == loc[r]
  IN
  /\ pc[r] = "after_sub"
  /\ IF variant = "server_v2" /\ KindOf(variant, e.type) = "checkout"
       THEN /\ loc' = [loc EXCEPT ![r].priceId = l.sub.price,
                                  ![r].tierLabel = getTierFromPrice(l.sub.price)]
            /\ Goto(r, ActOn(l.telegramId, "create"))
     ELSE IF variant = "server_v2"
       THEN /\ loc' = [loc EXCEPT
                 ![r].telegramId = InvoiceIdentity(l.sub, e),
                 ![r].priceId = l.sub.price,
                 ![r].tierLabel = getTierFromPrice(l.sub.price)]
            /\ Goto(r, "respond")
     ELSE IF ActOn(l.telegramId, "create") = "respond"
       THEN /\ UNCHANGED loc
            /\ Goto(r, "respond")
     ELSE LET priceId == OrElse(e.line_items_price, e.metadata_price_id)
          IN /\ loc' = [loc EXCEPT
                  ![r].priceId = priceId,
                  ![r].tierLabel = IF priceId = PREMIUM_PRICE_ID
                                     THEN "Premium" ELSE "Generic"]
             /\ Goto(r, "create")
  /\ UNCHANGED <<env, now, issued, group, event, calls, responses>>

\* variant of CreateInviteLink: a link created for another delivery of the
\* same event is kept and used again
CreateInviteLink_Cached(r) ==
  /\ pc[r] = "create"
  /\ IF \E q \in DOMAIN pc \ {r} : event[q] = event[r] /\ Truthy(loc[q].invite)
       THEN /\ \E q \in DOMAIN pc \ {r} :
                 /\ event[q] = event[r] /\ Truthy(loc[q].invite)
                 /\ loc' = [loc EXCEPT ![r].invite = loc[q].invite]
            /\ Goto(r, "send")
            /\ UNCHANGED calls
       ELSE /\ Issue(r, Call("createChatInviteLink", GROUP_CHAT_ID, Undefined,
                             MEMBER_LIMIT, now + INVITE_TTL, << >>, Undefined))
            /\ Goto(r, "await_create")
            /\ UNCHANGED loc
  /\ UNCHANGED <<env, now, issued, group, event, responses>>

\* sendInvite / createInviteLink: the createChatInviteLink request
CreateInviteLink(r) ==
  /\ pc[r] = "create"
  /\ Issue(r, Call("createChatInviteLink", GROUP_CHAT_ID, Undefined,
                   MEMBER_LIMIT, now + INVITE_TTL, << >>, Undefined))
  /\ Goto(r, "await_create")
  /\ UNCHANGED <<env, now, issued, group, event, loc, responses>>

\* variant of AfterCreate: the test of the invite link is missing
AfterCreate_NoLinkTest(v, out) ==
  IF out = "throw" THEN OnInviteThrow(v) ELSE "send"

\* what the invite code does with Telegram's answer to the creation:
\* with a link it goes on to the message, without one it returns, and a
\* thrown error goes where the variant catches it
AfterCreate(v, out) ==
  IF out = "ok" THEN "send"
  ELSE IF out = "throw" THEN OnInviteThrow(v)
  ELSE "respond"

\* Telegram answers the creation: a fresh link, a rejection ({ok:false}),
\* an answer without result.invite_link, or a transport error
CreateReturns(r) ==
  /\ pc[r] = "await_create"
  /\ \E out \in {"ok", "rejected", "nolink", "throw"} :
       \E link \in IF out = "ok" THEN Links \ issued ELSE {Undefined} :
         /\ Answer(r, out, link)
         /\ loc' = [loc EXCEPT ![r].invite = link]
         /\ issued' = IF out = "ok" THEN issued \cup {link} ELSE issued
         /\ Goto(r, AfterCreate(variant, out))
  /\ UNCHANGED <<env, now, group, event, responses>>

\* variant of SendMessage: the invite is kept in one variable of the
\* process, which every handler assigns and reads
SendMessage_LastInvite(r) ==
  /\ pc[r] = "send"
  /\ \E q \in DOMAIN pc :
       /\ Truthy(loc[q].invite)
       /\ Issue(r, Call("sendMessage", loc[r].telegramId, Undefined, 0, 0,
                        InviteText(variant, loc[r].tierLabel, loc[q].invite),
                        Undefined))
  /\ Goto(r, "await_send")
  /\ UNCHANGED <<env, now, issued, group, event, loc, responses>>

\* the sendMessage request carrying the invite
SendMessage(r) ==
  /\ pc[r] = "send"
  /\ Issue(r, Call("sendMessage", loc[r].telegramId, Undefined, 0, 0,
                   InviteText(variant, loc[r].tierLabel, loc[r].invite),
                   Undefined))
  /\ Goto(r, "await_send")
  /\ UNCHANGED <<env, now, issued, group, event, loc, responses>>

\* variant of AfterSend: a message that was not delivered is sent again
AfterSend_Retry(v, out) == IF out = "ok" THEN "respond" ELSE "send"

\* what follows Telegram's answer to the message
AfterSend(v, out) == IF out = "throw" THEN OnInviteThrow(v) ELSE "respond"

SendReturns(r) ==
  /\ pc[r] = "await_send"
  /\ \E out \in {"ok", "rejected", "throw"} :
       /\ Answer(r, out, Undefined)
       /\ Goto(r, AfterSend(variant, out))
  /\ UNCHANGED <<env, now, issued, group, event, loc, responses>>

\* variant of BanChatMember: the request is started and not awaited
BanChatMember_NotAwaited(r) ==
  /\ pc[r] = "ban"
  /\ Issue(r, Call("banChatMember", GROUP_CHAT_ID, loc[r].telegramId, 0, 0,
                   << >>, Undefined))
  /\ Goto(r, "respond")
  /\ UNCHANGED <<env, now, issued, group, event, loc, responses>>

\* kickFromGroup: the banChatMember request
BanChatMember(r) ==
  /\ pc[r] = "ban"
  /\ Issue(r, Call("banChatMember", GROUP_CHAT_ID, loc[r].telegramId, 0, 0,
                   << >>, Undefined))
  /\ Goto(r, "await_ban")
  /\ UNCHANGED <<env, now, issued, group, event, loc, responses>>

BanReturns(r) ==
  /\ pc[r] = "await_ban"
  /\ \E out \in {"ok", "rejected", "throw", "lost"} :
       /\ Answer(r, out, Undefined)
       /\ group' = GroupAfter(group, "banChatMember",
                           calls[r][Len(calls[r])].user_id, out)
       /\ Goto(r, AfterBan(variant, out))
  /\ UNCHANGED <<env, now, issued, event, loc, responses>>

\* kickFromGroup: the unbanChatMember request
UnbanChatMember(r) ==
  /\ pc[r] = "unban"
  /\ Issue(r, Call("unbanChatMember", GROUP_CHAT_ID, loc[r].telegramId, 0, 0,
                   << >>, Undefined))
  /\ Goto(r, "await_unban")
  /\ UNCHANGED <<env, now, issued, group, event, loc, responses>>

\* variant of UnbanReturns: the revocation block is run a second time
UnbanReturns_Again(r) ==
  /\ pc[r] = "await_unban"
  /\ \E out \in {"ok", "rejected", "throw"} :
       /\ Answer(r, out, Undefined)
       /\ group' = GroupAfter(group, "unbanChatMember",
                           calls[r][Len(calls[r])].user_id, out)
       /\ Goto(r, IF Len(calls[r]) < 4 THEN "ban" ELSE "respond")
  /\ UNCHANGED <<env, now, issued, event, loc, responses>>

UnbanReturns(r) ==
  /\ pc[r] = "await_unban"
  /\ \E out \in {"ok", "rejected", "throw"} :
       /\ Answer(r, out, Undefined)
       /\ group' = GroupAfter(group, "unbanChatMember",
                           calls[r][Len(calls[r])].user_id, out)
       /\ Goto(r, AfterUnban(variant, out))
  /\ UNCHANGED <<env, now, issued, event, loc, responses>>

\* the acknowledgment at the end of the second try block
AckBody(v) == IF v = "part_000" THEN "OK" ELSE "received:true"

Respond(r) ==
  /\ pc[r] = "respond"
  /\ Send(r, 200, AckBody(variant))
  /\ Goto(r, "done")
  /\ UNCHANGED <<env, now, issued, group, event, loc, calls>>

\* the catch of the second try block
Fail(r) ==
  /\ pc[r] = "fail"
  /\ Send(r, 500, "internal")
  /\ Goto(r, "done")
  /\ UNCHANGED <<env, now, issued, group, event, loc, calls>>

\* ------------------------------------------- POST /create-checkout-session
\* variant of MissingField: only priceId is tested
MissingField_PriceOnly(priceId, telegramId) == ~JsTruthy(priceId)

\* if (!priceId || !telegramId)
MissingField(priceId, telegramId) == ~JsTruthy(priceId) \/ ~JsTruthy(telegramId)

\* variant of SessionCreateCall: no subscription_data is passed
SessionCreateCall_SessionOnly(v, priceId, telegramId) ==
  [Call("checkout.sessions.create", Undefined, Undefined, 0, 0, << >>, Undefined)
     EXCEPT !.price = String(priceId),
            !.metadata_telegram_id = String(telegramId)]

\* the argument of stripe.checkout.sessions.create: the price of the line
\* item and the metadata each variant attaches
SessionCreateCall(v, priceId, telegramId) ==
  [Call("checkout.sessions.create", Undefined, Undefined, 0, 0, << >>, Undefined)
     EXCEPT !.price = String(priceId),
            !.metadata_telegram_id = String(telegramId),
            !.metadata_price_id =
               IF v = "part_000" THEN String(priceId) ELSE Undefined,
            !.subscription_metadata_telegram_id =
               IF v = "server_v1" THEN Undefined ELSE String(telegramId)]

\* a POST /create-checkout-session arrives with its parsed JSON body
ReceiveCheckout(r) ==
  /\ pc[r] = "idle"
  /\ \E p \in BodyPriceIds, t \in BodyTelegramIds :
       event' = [event EXCEPT ![r].body_priceId = p, ![r].body_telegramId = t]
  /\ Goto(r, "co_validate")
  /\ UNCHANGED <<env, now, issued, group, loc, calls, responses>>

\* the field test and the session-creation request
CreateCheckoutSession(r) ==
  LET priceId == event[r].body_priceId
      telegramId == event[r].body_telegramId
  IN
  /\ pc[r] = "co_validate"
  /\ IF MissingField(priceId, telegramId)
       THEN /\ Send(r, 400, "Missing priceId or telegramId")
            /\ Goto(r, "done")
            /\ UNCHANGED calls
       ELSE /\ Issue(r, SessionCreateCall(variant, priceId, telegramId))
            /\ Goto(r, "co_await")
            /\ UNCHANGED responses
  /\ UNCHANGED <<env, now, issued, group, event, loc>>

\* Stripe answers the creation: a session with its url, or an error, which
\* the handler's catch answers with status 500 and the error's message
SessionReturns(r) ==
  /\ pc[r] = "co_await"
  /\ \/ \E url \in SessionUrls :
          /\ Answer(r, "ok", url)
          /\ Send(r, 200, url)
     \/ /\ Answer(r, "throw", Undefined)
        /\ Send(r, 500, "e.message")
  /\ Goto(r, "done")
  /\ UNCHANGED <<env, now, issued, group, event, loc>>

NextCheckout ==
  \/ \E r \in Requests : ReceiveCheckout(r)
  \/ \E r \in Requests : CreateCheckoutSession(r)
  \/ \E r \in Requests : SessionReturns(r)

SpecCheckout == Init /\ [][NextCheckout]_vars

Next ==
  \/ Tick
  \/ \E r \in Requests : Receive(r)
  \/ \E r \in Requests : VerifySignature(r)
  \/ \E r \in Requests : Dispatch(r)
  \/ \E r \in Requests : FetchSubscription(r)
  \/ \E r \in Requests : SubscriptionReturns(r)
  \/ \E r \in Requests : Classify(r)
  \/ \E r \in Requests : CreateInviteLink(r)
  \/ \E r \in Requests : CreateReturns(r)
  \/ \E r \in Requests : SendMessage(r)
  \/ \E r \in Requests : SendReturns(r)
  \/ \E r \in Requests : BanChatMember(r)
  \/ \E r \in Requests : BanReturns(r)
  \/ \E r \in Requests : UnbanChatMember(r)
  \/ \E r \in Requests : UnbanReturns(r)
  \/ \E r \in Requests : Respond(r)
  \/ \E r \in Requests : Fail(r)

Spec == Init /\ [][Next]_vars

\* ------------------------------------------- a purchase and its events
\* r1 is the POST /create-checkout-session of a buyer; r2 and r3 are the
\* deliveries of the checkout.session.completed and of the
\* customer.subscription.deleted event of the same purchase
PurchaseRequests == {"r1", "r2", "r3"}
Deliveries == {"r2", "r3"}

InitPurchase ==
  /\ variant \in Variants
  /\ PREMIUM_PRICE_ID = "price_premium"
  /\ GENERIC_PRICE_ID = "price_generic"
  /\ stripeSub = NoSub
  /\ now = 0
  /\ issued = {}
  /\ group = [u \in TelegramIds |-> "member"]
  /\ pc = [r \in PurchaseRequests |-> "idle"]
  /\ event = [r \in PurchaseRequests |-> NoEvent]
  /\ loc = [r \in PurchaseRequests |-> InitLoc]
  /\ calls = [r \in PurchaseRequests |-> << >>]
  /\ responses = [r \in PurchaseRequests |-> << >>]

\* the buyer pays on the session that r1 created: Stripe creates the
\* subscription for the price of the line item, with the metadata passed
\* in subscription_data
CustomerPays ==
  /\ pc["r1"] = "done"
  /\ Len(calls["r1"]) = 1
  /\ calls["r1"][1].result = "ok"
  /\ ~stripeSub.present
  /\ stripeSub' = [present |-> TRUE,
                   metadata_telegram_id |->
                     calls["r1"][1].subscription_metadata_telegram_id,
                   price |-> calls["r1"][1].price]
  /\ UNCHANGED <<variant, PREMIUM_PRICE_ID, GENERIC_PRICE_ID, now, issued, group, pc,
                 event, loc, calls, responses>>

\* Stripe delivers checkout.session.completed: the object is the session,
\* with the metadata of the creation call, mode "subscription" and the id
\* of the subscription
DeliverCompleted(r) ==
  /\ pc[r] = "idle"
  /\ stripeSub.present
  /\ event' = [event EXCEPT ![r] =
       [NoEvent EXCEPT !.sigValid = TRUE,
                       !.type = "checkout.session.completed",
                       !.metadata_telegram_id = calls["r1"][1].metadata_telegram_id,
                       !.metadata_price_id = calls["r1"][1].metadata_price_id,
                       !.mode = "subscription",
                       !.subscription = "sub_1"]]
  /\ Goto(r, "verify")
  /\ UNCHANGED <<env, now, issued, group, loc, calls, responses>>

\* Stripe delivers customer.subscription.deleted: the object is the
\* subscription, with its own metadata
DeliverDeleted(r) ==
  /\ pc[r] = "idle"
  /\ stripeSub.present
  /\ event' = [event EXCEPT ![r] =
       [NoEvent EXCEPT !.sigValid = TRUE,
                       !.type = "customer.subscription.deleted",
                       !.metadata_telegram_id = stripeSub.metadata_telegram_id]]
  /\ Goto(r, "verify")
  /\ UNCHANGED <<env, now, issued, group, loc, calls, responses>>

NextPurchase ==
  \/ ReceiveCheckout("r1")
  \/ CreateCheckoutSession("r1")
  \/ SessionReturns("r1")
  \/ CustomerPays
  \/ DeliverCompleted("r2")
  \/ DeliverDeleted("r3")
  \/ \E r \in Deliveries : VerifySignature(r)
  \/ \E r \in Deliveries : Dispatch(r)
  \/ \E r \in Deliveries : FetchSubscription(r)
  \/ \E r \in Deliveries : SubscriptionReturns(r)
  \/ \E r \in Deliveries : Classify(r)
  \/ \E r \in Deliveries : CreateInviteLink(r)
  \/ \E r \in Deliveries : CreateReturns(r)
  \/ \E r \in Deliveries : SendMessage(r)
  \/ \E r \in Deliveries : SendReturns(r)
  \/ \E r \in Deliveries : BanChatMember(r)
  \/ \E r \in Deliveries : BanReturns(r)
  \/ \E r \in Deliveries : UnbanChatMember(r)
  \/ \E r \in Deliveries : UnbanReturns(r)
  \/ \E r \in Deliveries : Respond(r)
  \/ \E r \in Deliveries : Fail(r)

SpecPurchase == InitPurchase /\ [][NextPurchase]_vars

\* ----------------------------------------------- the Telegram handlers
\* app.post("/telegram-webhook") of server.js 127-154 and of part_001
\* 45-114, app.post(`/bot${TELEGRAM_BOT_TOKEN}`) of part_000 95-119; the
\* polling handlers bot.onText(/\/start/) and bot.on("callback_query") of
\* server.js 420-487; GET /whoami of server.js 157-164 and GET / of each
TelegramVariants == {"server_v1", "server_v2", "part_000", "part_001_a"}

\* the versions that register an HTTP endpoint for updates; server.js
\* 217-493 has none and receives its updates by polling (line 417)
UpdateEndpoints == {"server_v1", "part_000", "part_001_a"}

Texts == {"/start", "/start now", " /START ", "see /start", "hello"}
CallbackData == {"buy:GENERIC", "buy:PREMIUM", "buy_generic", "buy_premium",
                 "help"}

\* the updates Telegram posts: a message (with or without text; chat is
\* FALSE for a message object without its chat), a callback query (chat is
\* FALSE for one without its message, from is FALSE for one without its
\* sender), or an update of another kind
NoUpdate == [message |-> FALSE, text |-> Undefined, chat |-> FALSE,
             callback_data |-> Undefined, from |-> FALSE]

Updates ==
  {[NoUpdate EXCEPT !.message = TRUE, !.text = t, !.chat = c] :
     t \in {Undefined} \cup Texts, c \in BOOLEAN}
  \cup {[NoUpdate EXCEPT !.callback_data = d, !.from = f, !.chat = c] :
          d \in CallbackData, f \in BOOLEAN, c \in BOOLEAN}
  \cup {NoUpdate}

\* the updates the polling of server.js 417 hands to the handlers: they come
\* from Telegram's getUpdates, where a message has its chat and a callback
\* query of a button of this bot has its message and its sender
PolledUpdates ==
  {u \in Updates : (u.message => u.chat)
                   /\ (Truthy(u.callback_data) => u.chat /\ u.from)}

\* the updates variant v can be handed
UpdatesOf(v) == IF v = "server_v2" THEN PolledUpdates ELSE Updates

\* String.prototype.trim, toLowerCase and startsWith on the texts above
Trim(t) == IF t = " /START " THEN "/START" ELSE t

ToLowerCase(t) ==
  IF t = "/START" THEN "/start"
  ELSE IF t = " /START " THEN " /start "
  ELSE t

StartsWith(t, prefix) ==
  IF prefix = "/start" THEN t \in {"/start", "/start now"}
  ELSE IF prefix = "buy:" THEN t \in {"buy:GENERIC", "buy:PREMIUM"}
  ELSE FALSE

\* /\/start/.exec(text): the pattern of bot.onText, found anywhere in the
\* text, case-sensitive
MatchesStart(t) == t \in {"/start", "/start now", "see /start"}

\* cb.data.split(":")[1]
Choice(data) ==
  IF data = "buy:GENERIC" THEN "GENERIC"
  ELSE IF data = "buy:PREMIUM" THEN "PREMIUM"
  ELSE Undefined

\* the price a button of server.js 425-426 stands for (lines 446-448);
\* an unset PREMIUM_PRICE_ID leaves undefined
PlanPrice(data) ==
  IF data = "buy_premium" THEN PREMIUM_PRICE_ID
  ELSE IF data = "buy_generic" THEN GENERIC_PRICE_ID
  ELSE Null

ChatId == "12345"

TgCall(c) == [kind |-> "call", call |-> c]
TgRespond == [kind |-> "respond"]
TgThrow == [kind |-> "throw"]
\* the handler returns; it is not a route and sends no HTTP response
TgReturn == [kind |-> "return"]

TgSend(text) ==
  TgCall(Call("sendMessage", ChatId, Undefined, 0, 0, text, Undefined))

\* sendMessage with an inline keyboard; kb lists its buttons' callback_data
TgSendKeyboard(text, kb) ==
  TgCall([Call("sendMessage", ChatId, Undefined, 0, 0, text, Undefined)
            EXCEPT !.reply_markup = kb])

\* fetch(`${BASE_URL}/create-checkout-session`) of server.js 460-464
PostCheckout(priceId) ==
  TgCall([Call("POST /create-checkout-session", Undefined, Undefined, 0, 0,
               << >>, Undefined)
            EXCEPT !.body_priceId = JsStr(priceId),
                   !.body_telegramId = JsNum(ChatId)])

\* the end of a polling handler after its last call cs[n]: a call that
\* threw outside every try block rejects the handler's promise
EndAfter(c) == IF c.result = "throw" THEN TgThrow ELSE TgReturn

\* what the handler of variant v does next on update u after the answered
\* calls cs: its next outbound call, the response at the end of the try
\* block, its return, or an error thrown (a TypeError on reading a property
\* of undefined, or the error of the last call)
UpdateStep(v, u, cs) ==
  LET n == Len(cs) IN
  IF v = "server_v1" THEN
    IF ~u.message THEN TgRespond
    ELSE IF ~u.chat THEN TgThrow
    ELSE IF StartsWith(OrElse(u.text, ""), "/start") THEN
      IF n = 0
        THEN TgCall(Call("getMe", Undefined, Undefined, 0, 0, << >>, Undefined))
      ELSE IF n = 1
        THEN TgSend(<<"Ola! Eu sou o *", OrElse(cs[1].link, "bot"), "*.">>)
      ELSE TgRespond
    ELSE IF n = 0 THEN TgSend(<<"Comando nao reconhecido.">>)
    ELSE TgRespond
  ELSE IF v = "part_000" THEN
    IF ~(u.message /\ Truthy(u.text)) THEN TgRespond
    ELSE IF ~u.chat THEN TgThrow
    ELSE IF Trim(u.text) = "/start" /\ n = 0
      THEN TgSend(<<"Bem-vindo ao *Nexus Community Bot*!">>)
    ELSE TgRespond
  ELSE IF v = "server_v2" THEN
    IF u.message THEN
      \* bot.onText(/\/start/), lines 420-439
      IF ~(Truthy(u.text) /\ MatchesStart(u.text)) THEN TgReturn
      ELSE IF n = 0
        THEN TgSendKeyboard(<<"Choose your plan to generate the checkout:">>,
                            <<"buy_generic", "buy_premium">>)
      ELSE EndAfter(cs[1])
    ELSE IF Truthy(u.callback_data) THEN
      \* bot.on("callback_query"), lines 442-487
      IF ~Truthy(PlanPrice(u.callback_data)) THEN
        IF n = 0 THEN TgSend(<<"Invalid plan. Try /start again.">>)
        ELSE EndAfter(cs[1])
      ELSE IF n = 0 THEN PostCheckout(PlanPrice(u.callback_data))
      ELSE IF n = 1 THEN
        IF cs[1].result = "ok"
          THEN TgSend(<<"Checkout created. Click to pay: ", cs[1].link>>)
          ELSE TgSend(<<"Error creating checkout. Try /start again.">>)
      ELSE IF n = 2 /\ cs[1].result = "ok" /\ cs[2].result = "throw"
        THEN TgSend(<<"Error creating checkout. Try /start again.">>)
      ELSE EndAfter(cs[n])
    ELSE TgReturn
  ELSE
    IF u.message /\ Truthy(u.text) /\ ToLowerCase(Trim(u.text)) = "/start" THEN
      IF ~u.chat THEN TgThrow
      ELSE IF n = 0
        THEN TgSendKeyboard(<<"Escolha um plano para assinar:">>,
               <<"buy:GENERIC">> \o (IF Truthy(PREMIUM_PRICE_ID)
                                      THEN <<"buy:PREMIUM">> ELSE << >>))
      ELSE TgRespond
    ELSE IF Truthy(u.callback_data) /\ StartsWith(u.callback_data, "buy:") THEN
      IF n = 0 THEN
        IF ~u.from THEN TgThrow
        ELSE TgCall(
          [Call("checkout.sessions.create", Undefined, Undefined, 0, 0, << >>,
                Undefined)
             EXCEPT !.price = IF Choice(u.callback_data) = "PREMIUM"
                                 /\ Truthy(PREMIUM_PRICE_ID)
                                THEN PREMIUM_PRICE_ID ELSE GENERIC_PRICE_ID,
                    !.metadata_telegram_id = String(JsNum(ChatId))])
      ELSE IF n = 1
        THEN TgCall(Call("answerCallbackQuery", Undefined, Undefined, 0, 0,
                         <<cs[1].link>>, Undefined))
      ELSE TgRespond
    ELSE TgRespond

\* where an error goes: to the catch block of the endpoint (server.js
\* 150-153, part_000 114-118, part_001 110-113); the polling handlers have
\* none around lines 421-438 and 443-456, and none around the call of the
\* catch block 476-486, so there the handler's promise rejects unhandled
OnUpdateThrow(v) == IF v = "server_v2" THEN "unhandled" ELSE "tg_catch"

\* where a thrown call resumes: the try block of lines 459-486 catches its
\* own calls, so the polling handler runs on and UpdateStep reads the throw
OnUpdateCallThrow(v) == IF v = "server_v2" THEN "tg_run" ELSE "tg_catch"

\* variant of CatchStatus: the catch reports the error
CatchStatus_Error(v) == 500

\* the status the catch block of the endpoint answers with
CatchStatus(v) == 200

\* res.json({ ok: true }); res.sendStatus(200) in part_000
UpdateBody(v) == IF v = "part_000" THEN "OK" ELSE "ok:true"

InitTelegram ==
  /\ variant \in TelegramVariants
  /\ PREMIUM_PRICE_ID \in {Undefined, "price_premium"}
  /\ GENERIC_PRICE_ID = "price_generic"
  /\ stripeSub = NoSub
  /\ now = 0
  /\ issued = {}
  /\ group = [u \in TelegramIds |-> "member"]
  /\ pc = [r \in Requests |-> "idle"]
  /\ event = [r \in Requests |-> NoEvent]
  /\ loc = [r \in Requests |-> InitLoc]
  /\ calls = [r \in Requests |-> << >>]
  /\ responses = [r \in Requests |-> << >>]

\* Telegram posts an update to the endpoint, or the polling hands one to the
\* handlers
ReceiveUpdate(r) ==
  /\ pc[r] = "idle"
  /\ \E u \in UpdatesOf(variant) :
       event' = [event EXCEPT ![r].update = u,
                              ![r].route = IF variant \in UpdateEndpoints
                                             THEN "/telegram-webhook"
                                             ELSE "polling"]
  /\ Goto(r, "tg_run")
  /\ UNCHANGED <<env, now, issued, group, loc, calls, responses>>

\* the handler runs up to its next await, to its response or to its return
HandleUpdate(r) ==
  LET step == UpdateStep(variant, event[r].update, calls[r]) IN
  /\ pc[r] = "tg_run"
  /\ IF step.kind = "call"
       THEN /\ Issue(r, step.call)
            /\ Goto(r, "tg_await")
            /\ UNCHANGED responses
     ELSE IF step.kind = "respond"
       THEN /\ Send(r, 200, UpdateBody(variant))
            /\ Goto(r, "done")
            /\ UNCHANGED calls
     ELSE IF step.kind = "return"
       THEN /\ Goto(r, "done")
            /\ UNCHANGED <<calls, responses>>
     ELSE /\ Goto(r, OnUpdateThrow(variant))
          /\ UNCHANGED <<calls, responses>>
  /\ UNCHANGED <<env, now, issued, group, event, loc>>

\* the awaited call is answered: getMe with the bot's name, the session
\* creation and the POST to /create-checkout-session with the session's
\* url; a Telegram call or the POST is answered with a refusal (ok: false,
\* a status that is not 2xx or a body without url); or the call throws
UpdateCallReturns(r) ==
  LET api == calls[r][Len(calls[r])].api IN
  /\ pc[r] = "tg_await"
  /\ \/ /\ Answer(r, "ok",
                   IF api = "getMe" THEN "NexusBot"
                   ELSE IF api \in {"checkout.sessions.create",
                                    "POST /create-checkout-session"}
                     THEN CHOOSE url \in SessionUrls : TRUE
                   ELSE Undefined)
        /\ Goto(r, "tg_run")
     \/ /\ api # "checkout.sessions.create"
        /\ Answer(r, "rejected", Undefined)
        /\ Goto(r, "tg_run")
     \/ /\ Answer(r, "throw", Undefined)
        /\ Goto(r, OnUpdateCallThrow(variant))
  /\ UNCHANGED <<env, now, issued, group, event, loc, responses>>

\* the catch block of the endpoint
CatchUpdate(r) ==
  /\ pc[r] = "tg_catch"
  /\ Send(r, CatchStatus(variant), UpdateBody(variant))
  /\ Goto(r, "done")
  /\ UNCHANGED <<env, now, issued, group, event, loc, calls>>

\* GET /whoami of server.js 157-164: the handler calls getMe
ReceiveWhoami(r) ==
  /\ pc[r] = "idle"
  /\ variant = "server_v1"
  /\ event' = [event EXCEPT ![r].route = "/whoami"]
  /\ Issue(r, Call("getMe", Undefined, Undefined, 0, 0, << >>, Undefined))
  /\ Goto(r, "who_await")
  /\ UNCHANGED <<env, now, issued, group, loc, responses>>

\* getMe is answered and res.json(me) sends what Telegram said, the bot or
\* a refusal, with status 200; or it throws and the catch answers 500
WhoamiReturns(r) ==
  /\ pc[r] = "who_await"
  /\ \/ /\ Answer(r, "ok", "NexusBot")
        /\ Send(r, 200, "ok:true,result:NexusBot")
     \/ /\ Answer(r, "rejected", Undefined)
        /\ Send(r, 200, "ok:false")
     \/ /\ Answer(r, "throw", Undefined)
        /\ Send(r, 500, "error")
  /\ Goto(r, "done")
  /\ UNCHANGED <<env, now, issued, group, event, loc>>

\* GET / of every version answers "OK"
Healthcheck(r) ==
  /\ pc[r] = "idle"
  /\ event' = [event EXCEPT ![r].route = "/"]
  /\ Send(r, 200, "OK")
  /\ Goto(r, "done")
  /\ UNCHANGED <<env, now, issued, group, loc, calls>>

NextTelegram ==
  \/ \E r \in Requests : ReceiveUpdate(r)
  \/ \E r \in Requests : HandleUpdate(r)
  \/ \E r \in Requests : UpdateCallReturns(r)
  \/ \E r \in Requests : CatchUpdate(r)
  \/ \E r \in Requests : ReceiveWhoami(r)
  \/ \E r \in Requests : WhoamiReturns(r)
  \/ \E r \in Requests : Healthcheck(r)

SpecTelegram == InitTelegram /\ [][NextTelegram]_vars

\* ----------------------------- the handler of part_001, lines 118-175
InitA ==
  /\ variant = "part_001_a"
  /\ PREMIUM_PRICE_ID \in {Undefined, "price_premium"}
  /\ GENERIC_PRICE_ID = "price_generic"
  /\ stripeSub = [present |-> TRUE, metadata_telegram_id |-> "12345",
                  price |-> "price_premium"]
  /\ now = 0
  /\ issued = {}
  /\ group = [u \in TelegramIds |-> "member"]
  /\ pc = [r \in Requests |-> "idle"]
  /\ event = [r \in Requests |-> NoEvent]
  /\ loc = [r \in Requests |-> InitLoc]
  /\ calls = [r \in Requests |-> << >>]
  /\ responses = [r \in Requests |-> << >>]

\* the switch on event.type, up to the first await
DispatchA(r) ==
  LET e == event[r]
      tgId == IF e.type = "checkout.session.completed"
                THEN e.metadata_telegram_id
                ELSE OrElse(OrElse(e.metadata_telegram_id, e.customer_email), "")
  IN
  /\ pc[r] = "dispatch"
  /\ IF e.type \in {"checkout.session.completed", "invoice.payment_succeeded"}
       THEN /\ loc' = [loc EXCEPT ![r].telegramId = tgId]
            /\ Goto(r, ActOn(tgId, "create"))
       ELSE /\ UNCHANGED loc
            /\ Goto(r, "respond")
  /\ UNCHANGED <<env, now, issued, group, event, calls, responses>>

\* the two messages of the handler, as the list of their template pieces
TextA(type, invite) ==
  IF type = "checkout.session.completed"
    THEN <<" Assinatura ativada!\nEntre no grupo: ", invite,
           "\n\nLembrete: assinatura digital nao garante emprego.">>
    ELSE <<" Pagamento confirmado! Seu acesso esta ativo.\nLink do grupo: ",
           invite>>

\* sendDM
SendMessageA(r) ==
  /\ pc[r] = "send"
  /\ Issue(r, Call("sendMessage", loc[r].telegramId, Undefined, 0, 0,
                   TextA(event[r].type, loc[r].invite), Undefined))
  /\ Goto(r, "await_send")
  /\ UNCHANGED <<env, now, issued, group, event, loc, responses>>

NextA ==
  \/ \E r \in Requests : Receive(r)
  \/ \E r \in Requests : VerifySignature(r)
  \/ \E r \in Requests : DispatchA(r)
  \/ \E r \in Requests : CreateInviteLink(r)
  \/ \E r \in Requests : CreateReturns(r)
  \/ \E r \in Requests : SendMessageA(r)
  \/ \E r \in Requests : SendReturns(r)
  \/ \E r \in Requests : Respond(r)

SpecA == InitA /\ [][NextA]_vars

\* ------------------------------------- the body of a /stripe-webhook request
\* the file versions of the server that can be started: the two of
\* src/server.js, part_000, and three of part_001 (lines 1-207, 449-560,
\* 562-775).  The text of part_001 209-447 does not parse (a second "});"
\* at line 444 closes nothing), so no process serves it.
FileVersions == {"server_v1", "server_v2", "part_000", "part_001_a",
                 "part_001_c", "part_001_d"}

ContentTypes == {"application/json", "text/plain"}

\* the middleware a POST /stripe-webhook passes before the handler, in the
\* order of registration: app.use layers registered above the route, then
\* the route's own bodyParser.raw
WebhookStack(fv) ==
  IF fv = "server_v2" THEN <<"cors", "raw">>
  ELSE IF fv = "part_001_c" THEN <<"json", "raw">>
  ELSE <<"raw">>

\* body-parser: a parser leaves alone a body that was already read
\* (req._body) and a content type it was not set up for; express.json
\* leaves an object in req.body, bodyParser.raw a Buffer
ApplyLayer(layer, contentType, body) ==
  IF layer = "cors" THEN body
  ELSE IF body # "stream" THEN body
  ELSE IF contentType # "application/json" THEN body
  ELSE IF layer = "json" THEN "object"
  ELSE "buffer"

\* stripe.webhooks.constructEvent(req.body, sig, secret): the signature is
\* computed over the bytes received, so only a Buffer (or string) of the
\* original payload with a matching signature header passes
ConstructEventOk(body, sigValid) == body = "buffer" /\ sigValid

InitBody ==
  /\ variant \in FileVersions
  /\ PREMIUM_PRICE_ID = "price_premium"
  /\ GENERIC_PRICE_ID = "price_generic"
  /\ stripeSub = [present |-> TRUE, metadata_telegram_id |-> "12345",
                  price |-> "price_premium"]
  /\ now = 0
  /\ issued = {}
  /\ group = [u \in TelegramIds |-> "member"]
  /\ pc = [r \in Requests |-> "idle"]
  /\ event = [r \in Requests |-> NoEvent]
  /\ loc = [r \in Requests |-> InitLoc]
  /\ calls = [r \in Requests |-> << >>]
  /\ responses = [r \in Requests |-> << >>]

\* a POST /stripe-webhook arrives with its content type
ReceiveWebhook(r) ==
  /\ pc[r] = "idle"
  /\ \E e \in Events(variant), ct \in ContentTypes :
       event' = [event EXCEPT ![r] = [e EXCEPT !.contentType = ct]]
  /\ Goto(r, "middleware")
  /\ UNCHANGED <<env, now, issued, group, loc, calls, responses>>

\* the next middleware of the stack runs
RunMiddleware(r) ==
  LET stack == WebhookStack(variant)
      i == loc[r].layer + 1
  IN
  /\ pc[r] = "middleware"
  /\ loc' = [loc EXCEPT ![r].layer = i,
                        ![r].body = ApplyLayer(stack[i], event[r].contentType, @)]
  /\ Goto(r, IF i = Len(stack) THEN "construct" ELSE "middleware")
  /\ UNCHANGED <<env, now, issued, group, event, calls, responses>>

\* the first try block of the handler
ConstructEvent(r) ==
  /\ pc[r] = "construct"
  /\ IF ConstructEventOk(loc[r].body, event[r].sigValid)
       THEN /\ Goto(r, "dispatch")
            /\ UNCHANGED responses
       ELSE /\ Send(r, 400, "Webhook error")
            /\ Goto(r, "done")
  /\ UNCHANGED <<env, now, issued, group, event, loc, calls>>

NextBody ==
  \/ \E r \in Requests : ReceiveWebhook(r)
  \/ \E r \in Requests : RunMiddleware(r)
  \/ \E r \in Requests : ConstructEvent(r)

SpecBody == InitBody /\ [][NextBody]_vars

\* ----------------------- /stripe-webhook as the file registers and serves it
\* server.js 326-381 and part_001 492-557, each behind the middleware of its
\* own file.  In part_001 449-560 express.json() comes first, constructEvent
\* throws for every request and the rest of that handler (501-556, whose
\* awaits no try block encloses) is never reached.
ServedVersions == {"server_v2", "part_001_c"}

InitServed ==
  /\ variant \in ServedVersions
  /\ PREMIUM_PRICE_ID = "price_premium"
  /\ GENERIC_PRICE_ID = "price_generic"
  /\ stripeSub \in [present : {TRUE}, metadata_telegram_id : TidVals,
                    price : {"price_premium"}]
  /\ now = 0
  /\ issued = {}
  /\ group = [u \in TelegramIds |-> "member"]
  /\ pc = [r \in Requests |-> "idle"]
  /\ event = [r \in Requests |-> NoEvent]
  /\ loc = [r \in Requests |-> InitLoc]
  /\ calls = [r \in Requests |-> << >>]
  /\ responses = [r \in Requests |-> << >>]

\* every step of a request after its arrival
Served(r) ==
  \/ RunMiddleware(r) \/ ConstructEvent(r) \/ Dispatch(r)
  \/ FetchSubscription(r) \/ SubscriptionReturns(r) \/ Classify(r)
  \/ CreateInviteLink(r) \/ CreateReturns(r) \/ SendMessage(r)
  \/ SendReturns(r) \/ BanChatMember(r) \/ BanReturns(r)
  \/ UnbanChatMember(r) \/ UnbanReturns(r) \/ Respond(r)

NextServed ==
  \/ \E r \in Requests : ReceiveWebhook(r)
  \/ \E r \in Requests : RunMiddleware(r)
  \/ \E r \in Requests : ConstructEvent(r)
  \/ \E r \in Requests : Dispatch(r)
  \/ \E r \in Requests : FetchSubscription(r)
  \/ \E r \in Requests : SubscriptionReturns(r)
  \/ \E r \in Requests : Classify(r)
  \/ \E r \in Requests : CreateInviteLink(r)
  \/ \E r \in Requests : CreateReturns(r)
  \/ \E r \in Requests : SendMessage(r)
  \/ \E r \in Requests : SendReturns(r)
  \/ \E r \in Requests : BanChatMember(r)
  \/ \E r \in Requests : BanReturns(r)
  \/ \E r \in Requests : UnbanChatMember(r)
  \/ \E r \in Requests : UnbanReturns(r)
  \/ \E r \in Requests : Respond(r)

SpecServed == InitServed /\ [][NextServed]_vars

\* the event loop runs every continuation that is ready, and every
\* outbound call returns or throws
FairServed ==
  /\ InitServed /\ [][NextServed]_vars
  /\ \A r \in Requests : WF_vars(Served(r))

\* ------------------------------------------------ concurrent deliveries
\* two webhook deliveries handled by one process (server.js 326-381)
ConcRequests == {"r1", "r2"}

InitConc ==
  /\ variant = "server_v2"
  /\ PREMIUM_PRICE_ID = "price_premium"
  /\ GENERIC_PRICE_ID = "price_generic"
  /\ stripeSub \in [present : {TRUE}, metadata_telegram_id : TidVals,
                    price : {"price_premium"}]
  /\ now = 0
  /\ issued = {}
  /\ group = [u \in TelegramIds |-> "member"]
  /\ pc = [r \in ConcRequests |-> "idle"]
  /\ event = [r \in ConcRequests |-> NoEvent]
  /\ loc = [r \in ConcRequests |-> InitLoc]
  /\ calls = [r \in ConcRequests |-> << >>]
  /\ responses = [r \in ConcRequests |-> << >>]

AwaitLabels == {"await_sub", "await_create", "await_send", "await_ban",
                "await_unban"}

\* variant of Blocking: an outbound call is made synchronously and holds the
\* thread until it is answered
Blocking_Sync(label) == label \in AwaitLabels

\* every outbound call is an awaited promise (await fetch, await
\* stripe.subscriptions.retrieve): a handler that waits has returned to the
\* event loop and holds nothing
Blocking(label) == FALSE

\* the event loop runs a step of r when no handler holds the thread
CanRun(r) == \A q \in DOMAIN pc \ {r} : ~Blocking(pc[q])

\* the synchronous stretches of a handler, between two awaits
Internal(r) ==
  \/ VerifySignature(r) \/ Dispatch(r) \/ FetchSubscription(r) \/ Classify(r)
  \/ CreateInviteLink(r) \/ SendMessage(r) \/ BanChatMember(r)
  \/ UnbanChatMember(r) \/ Respond(r)

\* the answers to the outbound calls of r
Returns(r) ==
  \/ SubscriptionReturns(r) \/ CreateReturns(r) \/ SendReturns(r)
  \/ BanReturns(r) \/ UnbanReturns(r)

NextConc ==
  \/ \E r \in ConcRequests : CanRun(r) /\ Receive(r)
  \/ \E r \in ConcRequests : CanRun(r) /\ VerifySignature(r)
  \/ \E r \in ConcRequests : CanRun(r) /\ Dispatch(r)
  \/ \E r \in ConcRequests : CanRun(r) /\ FetchSubscription(r)
  \/ \E r \in ConcRequests : CanRun(r) /\ SubscriptionReturns(r)
  \/ \E r \in ConcRequests : CanRun(r) /\ Classify(r)
  \/ \E r \in ConcRequests : CanRun(r) /\ CreateInviteLink(r)
  \/ \E r \in ConcRequests : CanRun(r) /\ CreateReturns(r)
  \/ \E r \in ConcRequests : CanRun(r) /\ SendMessage(r)
  \/ \E r \in ConcRequests : CanRun(r) /\ SendReturns(r)
  \/ \E r \in ConcRequests : CanRun(r) /\ BanChatMember(r)
  \/ \E r \in ConcRequests : CanRun(r) /\ BanReturns(r)
  \/ \E r \in ConcRequests : CanRun(r) /\ UnbanChatMember(r)
  \/ \E r \in ConcRequests : CanRun(r) /\ UnbanReturns(r)
  \/ \E r \in ConcRequests : CanRun(r) /\ Respond(r)

SpecConc == InitConc /\ [][NextConc]_vars

\* the same deliveries under the scheduling of the event loop: a handler
\* that can run does run; the calls of r2 are answered, those of r1 need
\* never be
FairConc ==
  /\ InitConc /\ [][NextConc]_vars
  /\ \A r \in ConcRequests : WF_vars(CanRun(r) /\ Internal(r))
  /\ WF_vars(CanRun("r2") /\ Returns("r2"))

TypeOK ==
  /\ variant \in FileVersions
  /\ now \in 0..MaxNow
  /\ issued \subseteq Links
  /\ group \in [TelegramIds -> {"member", "banned", "left"}]
  /\ \A r \in DOMAIN pc : Len(responses[r]) <= 1


\* ================================================================ claims
Ack == [status |-> 200, body |-> "received:true"]

IsMessaging(c) == c.api \in MessagingApis

MessagingCalls(r) == SelectSeq(calls[r], IsMessaging)

CountApi(r, api) == Cardinality({i \in 1..Len(calls[r]) : calls[r][i].api = api})

Verified(r) == pc[r] # "idle" /\ event[r].sigValid

\* C1: a request whose signature verification fails is answered 400 and
\* makes no outbound call (no subscription retrieval, no Telegram call); no
\* outbound call is made before verification has passed.  All variants.
C1_InvalidSignatureRejected ==
  \A r \in Requests :
    /\ pc[r] \in {"idle", "verify"} => calls[r] = << >> /\ responses[r] = << >>
    /\ (pc[r] # "idle" /\ ~event[r].sigValid) =>
         /\ pc[r] \in {"verify", "done"}
         /\ calls[r] = << >>
         /\ pc[r] = "done" =>
              responses[r] = <<[status |-> 400, body |-> "Webhook error"]>>

C1_Witness ==
  \E r \in Requests :
    /\ pc[r] = "done" /\ ~event[r].sigValid
    /\ event[r].type = "checkout.session.completed"
    /\ Truthy(event[r].metadata_telegram_id)
    /\ Len(responses[r]) = 1 /\ responses[r][1].status = 400

\* C2: in server_v2, once verification has passed the only response is the
\* acknowledgment {received: true} with status 200, whatever the Telegram
\* calls answered (rejection or thrown error); a finished request has sent
\* exactly that one response.
C2_AlwaysAcknowledged ==
  \A r \in Requests :
    (variant = "server_v2" /\ Verified(r)) =>
      /\ \A i \in 1..Len(responses[r]) : responses[r][i] = Ack
      /\ pc[r] # "fail"
      /\ pc[r] = "done" => responses[r] = <<Ack>>

C2_Witness ==
  \E r \in Requests :
    /\ variant = "server_v2" /\ Verified(r) /\ pc[r] = "done"
    /\ \E i \in 1..Len(calls[r]) :
         IsMessaging(calls[r][i]) /\ calls[r][i].result = "throw"
    /\ responses[r] = <<Ack>>

\* the identity sources of section 4.2 are all empty: the event's own
\* telegram_id and, for a checkout whose session references a subscription,
\* that subscription's telegram_id
NoIdentity(r) ==
  /\ ~Truthy(event[r].metadata_telegram_id)
  /\ event[r].type = "checkout.session.completed" =>
       (Truthy(event[r].subscription) => ~Truthy(stripeSub.metadata_telegram_id))

\* C3: in server_v2, a verified checkout.session.completed or
\* customer.subscription.deleted event with no resolvable telegram_id makes
\* no Telegram call and is answered with the 200 acknowledgment.
C3_NoIdentityNoAction ==
  \A r \in Requests :
    (/\ variant = "server_v2" /\ Verified(r)
     /\ event[r].type \in {"checkout.session.completed",
                           "customer.subscription.deleted"}
     /\ NoIdentity(r)) =>
      /\ MessagingCalls(r) = << >>
      /\ pc[r] \notin {"create", "send", "ban", "unban", "fail"}
      /\ pc[r] = "done" => responses[r] = <<Ack>>

C3_Witness ==
  \E r \in Requests :
    /\ variant = "server_v2" /\ Verified(r) /\ pc[r] = "done"
    /\ event[r].type = "customer.subscription.deleted"
    /\ NoIdentity(r)
    /\ responses[r] = <<Ack>>

RecognizedTypes == {"checkout.session.completed", "invoice.payment_succeeded",
                    "customer.subscription.deleted"}

\* C4: a verified event of any other kind than the three recognized ones
\* makes no outbound call at all and is answered with status 200.  All
\* variants.
C4_UnknownKindIgnored ==
  \A r \in Requests :
    (Verified(r) /\ event[r].type \notin RecognizedTypes) =>
      /\ calls[r] = << >>
      /\ pc[r] \in {"verify", "dispatch", "respond", "done"}
      /\ pc[r] = "done" =>
           (Len(responses[r]) = 1 /\ responses[r][1].status = 200)

C4_Witness ==
  \E r \in Requests :
    /\ Verified(r) /\ pc[r] = "done"
    /\ variant \in {"server_v2", "part_000"}
    /\ event[r].type = "customer.updated"
    /\ Truthy(event[r].metadata_telegram_id)
    /\ Len(responses[r]) = 1 /\ responses[r][1].status = 200


Contains(text, piece) == \E i \in 1..Len(text) : text[i] = piece

AllMessagingOk(r) ==
  \A i \in 1..Len(calls[r]) :
    IsMessaging(calls[r][i]) => calls[r][i].result = "ok"

RetrievalSucceeded(r) ==
  \E i \in 1..Len(calls[r]) :
    calls[r][i].api = "subscriptions.retrieve" /\ calls[r][i].result = "ok"

\* the purchase behind the event has one of the two configured prices
PurchasedPriceRecognized(r) ==
  /\ Truthy(event[r].subscription)
  /\ Truthy(stripeSub.price)
  /\ stripeSub.price \in {PREMIUM_PRICE_ID, GENERIC_PRICE_ID}

LabelOfPrice(p) ==
  CASE p = PREMIUM_PRICE_ID -> PremiumLabel
    [] p = GENERIC_PRICE_ID /\ p # PREMIUM_PRICE_ID -> GenericLabel
    [] OTHER -> FallbackLabel

\* one creation call for the group (one member, expiring 1800 s after the
\* call), then one message to T with the label and the link just created
InviteDelivered(r, T, label) ==
  LET m == MessagingCalls(r) IN
  /\ Len(m) = 2
  /\ m[1].api = "createChatInviteLink"
  /\ m[1].chat_id = GROUP_CHAT_ID
  /\ m[1].member_limit = 1
  /\ m[1].expire_date = m[1].at + 1800
  /\ Truthy(m[1].link)
  /\ m[2].api = "sendMessage"
  /\ m[2].chat_id = T
  /\ Contains(m[2].text, label)
  /\ Contains(m[2].text, m[1].link)

C5_Case(r) ==
  /\ variant = "server_v2" /\ Verified(r) /\ pc[r] = "done"
  /\ event[r].type = "checkout.session.completed"
  /\ Truthy(event[r].metadata_telegram_id)
  /\ PurchasedPriceRecognized(r)
  /\ AllMessagingOk(r)

\* C5 as stated: in server_v2, a verified checkout.session.completed event
\* with telegram_id T and a recognized price, both Telegram calls succeeding,
\* ends with one createChatInviteLink (group, member_limit 1, now + 1800),
\* then one sendMessage to T carrying that price's tier label and the link,
\* and status 200.  Stated for the configurations with both price variables
\* set, where the classifier's treatment of an unset variable plays no part.
C5_InviteForRecognizedPrice ==
  \A r \in Requests :
    (C5_Case(r) /\ Truthy(PREMIUM_PRICE_ID) /\ Truthy(GENERIC_PRICE_ID)) =>
      /\ InviteDelivered(r, event[r].metadata_telegram_id,
                         LabelOfPrice(stripeSub.price))
      /\ responses[r] = <<Ack>>

\* the label the handler has for a purchase whose price it could not read:
\* "Membership", and the label of a price variable that is unset otherwise
AbsentPriceLabel ==
  IF PREMIUM_PRICE_ID = Undefined THEN PremiumLabel
  ELSE IF GENERIC_PRICE_ID = Undefined THEN GenericLabel
  ELSE FallbackLabel

\* C5 (amended): in every case of C5 there is one createChatInviteLink
\* (group, member_limit 1, now + 1800), then one sendMessage to T carrying
\* the link just created, and status 200; the message carries the tier label
\* of the purchased price when the subscription retrieval succeeded, and the
\* label of an absent price when the retrieval threw.
C5_InviteLabelFollowsRetrieval ==
  \A r \in Requests :
    C5_Case(r) =>
      /\ InviteDelivered(r, event[r].metadata_telegram_id,
                         IF RetrievalSucceeded(r)
                           THEN LabelOfPrice(stripeSub.price)
                           ELSE AbsentPriceLabel)
      /\ responses[r] = <<Ack>>

C5_Witness ==
  \E r \in Requests :
    /\ C5_Case(r) /\ RetrievalSucceeded(r)
    /\ stripeSub.price = GENERIC_PRICE_ID
    /\ Len(MessagingCalls(r)) = 2
    /\ now > 0 /\ MessagingCalls(r)[1].at > 0

\* C6: in server_v2, a verified customer.subscription.deleted event whose
\* metadata carries telegram_id M makes exactly one banChatMember call and
\* then exactly one unbanChatMember call, both for the group and M, makes no
\* other call, and is answered with status 200.
C6_RevokeBanThenUnban ==
  \A r \in Requests :
    (/\ variant = "server_v2" /\ Verified(r) /\ pc[r] = "done"
     /\ event[r].type = "customer.subscription.deleted"
     /\ Truthy(event[r].metadata_telegram_id)) =>
      /\ Len(calls[r]) = 2
      /\ calls[r][1].api = "banChatMember"
      /\ calls[r][2].api = "unbanChatMember"
      /\ \A i \in 1..2 : /\ calls[r][i].chat_id = GROUP_CHAT_ID
                         /\ calls[r][i].user_id = event[r].metadata_telegram_id
      /\ responses[r] = <<Ack>>

\* C7: every execution of kickFromGroup that has returned has issued, right
\* after its banChatMember call, an unbanChatMember call for the same group
\* and member, whatever the ban call answered (rejection or thrown error).
C7_UnbanAlwaysFollowsBan ==
  \A r \in Requests :
    pc[r] \in {"respond", "done"} =>
      \A i \in 1..Len(calls[r]) :
        calls[r][i].api = "banChatMember" =>
          /\ i < Len(calls[r])
          /\ calls[r][i + 1].api = "unbanChatMember"
          /\ calls[r][i + 1].chat_id = calls[r][i].chat_id
          /\ calls[r][i + 1].user_id = calls[r][i].user_id

\* the label the classifier is to return: the premium label for the
\* configured premium price, the generic label for the configured generic
\* price, "Membership" for an absent or unrecognized price
ClaimedTier(priceId) ==
  IF priceId = Undefined THEN FallbackLabel
  ELSE IF priceId = PREMIUM_PRICE_ID THEN PremiumLabel
  ELSE IF priceId = GENERIC_PRICE_ID THEN GenericLabel
  ELSE FallbackLabel

\* C8: getTierFromPrice returns, under every configuration of the two price
\* variables (also unset), the premium label only for the configured premium
\* price, the generic label only for the configured generic price and
\* "Membership" for every unrecognized or absent priceId.
C8_TierTotal ==
  \A r \in Requests :
    (variant = "server_v2" /\ loc[r].tierLabel # Undefined) =>
      loc[r].tierLabel = ClaimedTier(loc[r].priceId)

CreationFailed(c) ==
  c.api = "createChatInviteLink" /\ c.result \in {"rejected", "nolink", "throw"}

\* C9: when the invite creation fails (rejection, answer without
\* invite_link, thrown error) the request makes no sendMessage call and no
\* second createChatInviteLink call.  All variants.
C9_NoDeliveryAfterFailedCreation ==
  \A r \in Requests :
    (\E i \in 1..Len(calls[r]) : CreationFailed(calls[r][i])) =>
      /\ CountApi(r, "sendMessage") = 0
      /\ CountApi(r, "createChatInviteLink") = 1
      /\ pc[r] \in {"respond", "fail", "done"}

C9_Witness ==
  \E r \in Requests :
    /\ pc[r] = "done"
    /\ variant \in {"server_v1", "server_v2"}
    /\ \E i \in 1..Len(calls[r]) :
         CreationFailed(calls[r][i]) /\ calls[r][i].result # "throw"

\* C10: in server_v2, when sendMessage fails (rejection or thrown error)
\* after a successful createChatInviteLink, that sendMessage is the
\* request's last outbound call (no revocation, no retry of either call) and
\* the request is acknowledged with status 200.
C10_FailedDeliveryIsFinal ==
  \A r \in Requests :
    variant = "server_v2" =>
      \A i \in 1..Len(calls[r]) :
        (calls[r][i].api = "sendMessage"
           /\ calls[r][i].result \in {"rejected", "throw"}) =>
          /\ i = Len(calls[r])
          /\ CountApi(r, "sendMessage") = 1
          /\ CountApi(r, "createChatInviteLink") = 1
          /\ pc[r] \in {"respond", "done"}
          /\ pc[r] = "done" => responses[r] = <<Ack>>

C10_Witness ==
  \E r \in Requests :
    /\ variant = "server_v2" /\ pc[r] = "done"
    /\ Len(calls[r]) >= 2
    /\ calls[r][Len(calls[r]) - 1].api = "createChatInviteLink"
    /\ calls[r][Len(calls[r]) - 1].result = "ok"
    /\ calls[r][Len(calls[r])].api = "sendMessage"
    /\ calls[r][Len(calls[r])].result = "throw"
    /\ responses[r] = <<Ack>>


RetrievalThrew(r) ==
  \E i \in 1..Len(calls[r]) :
    calls[r][i].api = "subscriptions.retrieve" /\ calls[r][i].result = "throw"

\* the identity of a checkout by section 4.2: the session's own telegram_id,
\* else the telegram_id of the subscription the session references
ClaimedCheckoutIdentity(r) ==
  IF Truthy(event[r].metadata_telegram_id) THEN event[r].metadata_telegram_id
  ELSE IF Truthy(event[r].subscription) THEN stripeSub.metadata_telegram_id
  ELSE Undefined

\* C11: in server_v2 and part_000, a verified checkout.session.completed
\* event is resolved to session.metadata.telegram_id, else to the
\* telegram_id of the fetched subscription; the invite is made for that
\* identity and is skipped only when both are empty.  (Requests whose
\* retrieval threw are left aside.)
C11_CheckoutIdentityOrder ==
  \A r \in Requests :
    (/\ variant \in {"server_v2", "part_000"}
     /\ Verified(r) /\ pc[r] = "done"
     /\ event[r].type = "checkout.session.completed"
     /\ ~RetrievalThrew(r)) =>
      IF Truthy(ClaimedCheckoutIdentity(r))
        THEN /\ CountApi(r, "createChatInviteLink") = 1
             /\ \A i \in 1..Len(calls[r]) :
                  calls[r][i].api = "sendMessage" =>
                    calls[r][i].chat_id = ClaimedCheckoutIdentity(r)
        ELSE MessagingCalls(r) = << >>

\* C12: in server_v2, a verified invoice.payment_succeeded event is resolved
\* to the linked subscription's telegram_id when the retrieval succeeds and
\* carries one, otherwise to the invoice's own metadata.telegram_id; a failed
\* retrieval never takes the handler to its 500 branch.
C12_InvoiceIdentity ==
  \A r \in Requests :
    (/\ variant = "server_v2" /\ Verified(r)
     /\ event[r].type = "invoice.payment_succeeded") =>
      /\ pc[r] # "fail"
      /\ \A i \in 1..Len(responses[r]) : responses[r][i] = Ack
      /\ pc[r] \in {"respond", "done"} =>
           loc[r].telegramId =
             IF RetrievalSucceeded(r) /\ Truthy(stripeSub.metadata_telegram_id)
               THEN stripeSub.metadata_telegram_id
               ELSE event[r].metadata_telegram_id

C12_Witness ==
  \E r \in Requests :
    /\ variant = "server_v2" /\ Verified(r) /\ pc[r] = "done"
    /\ event[r].type = "invoice.payment_succeeded"
    /\ RetrievalThrew(r)
    /\ Truthy(stripeSub.metadata_telegram_id)
    /\ Truthy(event[r].metadata_telegram_id)
    /\ loc[r].telegramId = event[r].metadata_telegram_id
    /\ responses[r] = <<Ack>>

\* C13: a verified event causes at most one subscription retrieval, and none
\* when it is a customer.subscription.deleted or an unrecognized kind; the
\* handler never writes the configuration or Stripe's subscription object.
C13_AtMostOneRetrieval ==
  /\ [](\A r \in Requests :
          /\ CountApi(r, "subscriptions.retrieve") <= 1
          /\ (pc[r] # "idle" /\ event[r].type \notin
                {"checkout.session.completed", "invoice.payment_succeeded"})
               => CountApi(r, "subscriptions.retrieve") = 0)
  /\ [][env' = env]_vars

C13_Witness ==
  \E r \in Requests :
    /\ Verified(r) /\ pc[r] = "done"
    /\ event[r].type = "invoice.payment_succeeded"
    /\ CountApi(r, "subscriptions.retrieve") = 1
    /\ RetrievalThrew(r)


\* C14: a verified event causes at most one createChatInviteLink, one
\* sendMessage, one banChatMember and one unbanChatMember call, and never
\* both an invite and a revocation.  All variants.
C14_ActionAtMostOnce ==
  \A r \in Requests :
    /\ \A api \in MessagingApis : CountApi(r, api) <= 1
    /\ ~(/\ CountApi(r, "createChatInviteLink") + CountApi(r, "sendMessage") > 0
         /\ CountApi(r, "banChatMember") + CountApi(r, "unbanChatMember") > 0)

C14_Witness ==
  \E r \in Requests :
    /\ Verified(r) /\ pc[r] = "done"
    /\ CountApi(r, "banChatMember") = 1
    /\ CountApi(r, "unbanChatMember") = 1

\* C18: once kickFromGroup has returned, every banChatMember call that took
\* effect on Telegram (also one whose response was lost) has been followed
\* by an unbanChatMember call for the same group and member.
C18_NeverLeftBanned ==
  \A r \in Requests :
    pc[r] \in {"respond", "done"} =>
      \A i \in 1..Len(calls[r]) :
        (calls[r][i].api = "banChatMember"
           /\ calls[r][i].result \in {"ok", "lost"}) =>
          \E j \in (i + 1)..Len(calls[r]) :
            /\ calls[r][j].api = "unbanChatMember"
            /\ calls[r][j].chat_id = calls[r][i].chat_id
            /\ calls[r][j].user_id = calls[r][i].user_id

\* C19: in part_000 and in server_v1 the only visible failure is the
\* signature failure: a verified request is always answered with status
\* 200, also when the subscription retrieval or a Telegram call throws.
C19_OnlySignatureFailureVisible ==
  \A r \in Requests :
    (variant \in {"part_000", "server_v1"} /\ Verified(r) /\ pc[r] = "done") =>
      (Len(responses[r]) = 1 /\ responses[r][1].status = 200)


\* C20 as stated (SpecCheckout): POST /create-checkout-session with priceId
\* or telegramId missing answers 400 with an error string and makes no
\* session-creation call; with both present it makes exactly one
\* session-creation call and answers with the session URL.
C20_CheckoutAnswersUrl ==
  \A r \in Requests :
    pc[r] = "done" =>
      IF event[r].body_priceId = JsUndef \/ event[r].body_telegramId = JsUndef
           \/ String(event[r].body_priceId) = ""
           \/ String(event[r].body_telegramId) \in {"", "0"}
        THEN /\ responses[r] = <<[status |-> 400,
                                  body |-> "Missing priceId or telegramId"]>>
             /\ calls[r] = << >>
        ELSE /\ Len(calls[r]) = 1
             /\ calls[r][1].api = "checkout.sessions.create"
             /\ responses[r] = <<[status |-> 200, body |-> calls[r][1].link]>>
             /\ calls[r][1].link \in SessionUrls

\* C20 (amended): the same, the session URL being the answer when the
\* creation call succeeds; when that call throws the one call is answered
\* with status 500.
C20_CheckoutAnswersUrlOrError ==
  \A r \in Requests :
    /\ pc[r] \in {"idle", "co_validate"} => calls[r] = << >>
    /\ pc[r] = "done" =>
      IF ~JsTruthy(event[r].body_priceId) \/ ~JsTruthy(event[r].body_telegramId)
        THEN /\ responses[r] = <<[status |-> 400,
                                  body |-> "Missing priceId or telegramId"]>>
             /\ calls[r] = << >>
        ELSE /\ Len(calls[r]) = 1
             /\ calls[r][1].api = "checkout.sessions.create"
             /\ Len(responses[r]) = 1
             /\ IF calls[r][1].result = "ok"
                  THEN /\ responses[r][1] = [status |-> 200,
                                             body |-> calls[r][1].link]
                       /\ calls[r][1].link \in SessionUrls
                  ELSE responses[r][1].status = 500

C20_Witness ==
  \E r \in Requests :
    /\ pc[r] = "done"
    /\ event[r].body_priceId = JsStr("price_generic")
    /\ event[r].body_telegramId = JsNum("12345")
    /\ Len(calls[r]) = 1 /\ calls[r][1].result = "ok"
    /\ responses[r] = <<[status |-> 200, body |-> calls[r][1].link]>>


\* ------------------------------------------------------ claims C15 to C17
\* what the handler of server.js 326-381 does next when it runs alone on
\* event e, after the answered calls cs, at time t: its next outbound call,
\* or its response when no call is left
SoloCall(c, t) == [kind |-> "call", call |-> [c EXCEPT !.at = t]]

SoloResponse(status, body) ==
  [kind |-> "response", response |-> [status |-> status, body |-> body]]

SoloNext(e, cs, t) ==
  LET n == Len(cs)
      branch == KindOf("server_v2", e.type)
      k == IF Truthy(e.subscription) THEN 1 ELSE 0
      sub == IF k = 1 /\ n >= 1 /\ cs[1].result = "ok" THEN stripeSub ELSE NoSub
      retrieve == SoloCall(Call("subscriptions.retrieve", Undefined, Undefined,
                                0, 0, << >>, e.subscription), t)
      ack == SoloResponse(200, "received:true")
  IN
  IF ~e.sigValid THEN SoloResponse(400, "Webhook error")
  ELSE IF branch = "checkout" THEN
    IF n < k THEN retrieve
    ELSE IF ~Truthy(e.metadata_telegram_id) THEN ack
    ELSE IF n = k
      THEN SoloCall(Call("createChatInviteLink", GROUP_CHAT_ID, Undefined,
                         MEMBER_LIMIT, t + INVITE_TTL, << >>, Undefined), t)
    ELSE IF n = k + 1 /\ cs[n].result = "ok"
      THEN SoloCall(Call("sendMessage", e.metadata_telegram_id, Undefined, 0, 0,
                         InviteText("server_v2", getTierFromPrice(sub.price),
                                    cs[n].link),
                         Undefined), t)
    ELSE ack
  ELSE IF branch = "invoice" THEN
    IF n < k THEN retrieve ELSE ack
  ELSE IF branch = "deleted" THEN
    IF ~Truthy(e.metadata_telegram_id) THEN ack
    ELSE IF n = 0
      THEN SoloCall(Call("banChatMember", GROUP_CHAT_ID, e.metadata_telegram_id,
                         0, 0, << >>, Undefined), t)
    ELSE IF n = 1 /\ cs[1].result \in {"ok", "rejected"}
      THEN SoloCall(Call("unbanChatMember", GROUP_CHAT_ID,
                         e.metadata_telegram_id, 0, 0, << >>, Undefined), t)
    ELSE ack
  ELSE ack

Unanswered(c) == [c EXCEPT !.result = "pending", !.link = Undefined]

\* every call r has made is the call the handler alone makes after the
\* same answers, and its response is the one the handler alone gives
RunsAsAlone(r) ==
  /\ \A i \in 1..Len(calls[r]) :
       SoloNext(event[r], SubSeq(calls[r], 1, i - 1), calls[r][i].at)
         = SoloCall(Unanswered(calls[r][i]), calls[r][i].at)
  /\ responses[r] # << >> =>
       /\ pc[r] = "done"
       /\ \A i \in 1..Len(calls[r]) : calls[r][i].result # "pending"
       /\ SoloNext(event[r], calls[r], now)
            = [kind |-> "response", response |-> responses[r][1]]
       /\ Len(responses[r]) = 1
  /\ pc[r] = "done" => responses[r] # << >>

\* C15 (SpecConc): whatever the interleaving of two deliveries, each
\* handler's outbound calls and response are exactly those the handler
\* produces alone on its event with the same answers to its calls.
C15_InterleavingInvisible == \A r \in ConcRequests : RunsAsAlone(r)

C15_Witness ==
  /\ pc["r1"] = "done" /\ pc["r2"] = "done"
  /\ Len(calls["r1"]) = 3 /\ Len(calls["r2"]) = 3
  /\ calls["r1"][3].api = "sendMessage" /\ calls["r2"][3].api = "sendMessage"
  /\ calls["r1"][2].link # calls["r2"][2].link
  /\ calls["r1"][1].result = "ok" /\ calls["r2"][1].result = "throw"

\* C16 (FairConc): a delivery whose own calls are answered reaches its
\* acknowledgment, also while the other delivery waits for an answer that
\* never comes.
C16_OthersReachAcknowledgment ==
  (pc["r2"] # "idle" /\ event["r2"].sigValid) ~> (responses["r2"] = <<Ack>>)

C16_Witness ==
  /\ pc["r1"] \in AwaitLabels
  /\ calls["r1"][Len(calls["r1"])].result = "pending"
  /\ responses["r2"] = <<Ack>>
  /\ Len(calls["r2"]) >= 2

SameCheckoutTwice(r, q) ==
  /\ r # q
  /\ pc[r] # "idle" /\ pc[q] # "idle"
  /\ event[r] = event[q]
  /\ event[r].sigValid
  /\ event[r].type = "checkout.session.completed"
  /\ Truthy(event[r].metadata_telegram_id)

\* C17 (SpecConc): when one checkout.session.completed event with an
\* identity is delivered twice, one after the other or at the same time,
\* each delivery is acknowledged with success, each makes its own
\* createChatInviteLink call, and the message of a delivery carries the link
\* returned to that delivery, never the link of the other one.
C17_EachDeliveryOwnLink ==
  \A r, q \in ConcRequests :
    SameCheckoutTwice(r, q) =>
      /\ pc[r] \in {"send", "await_send", "respond", "done"} =>
           CountApi(r, "createChatInviteLink") = 1
      /\ pc[r] = "done" => responses[r] = <<Ack>>
      /\ \A i \in 1..Len(calls[r]) :
           calls[r][i].api = "sendMessage" =>
             /\ i > 1
             /\ calls[r][i - 1].api = "createChatInviteLink"
             /\ calls[r][i - 1].result = "ok"
             /\ calls[r][i].chat_id = event[r].metadata_telegram_id
             /\ Contains(calls[r][i].text, calls[r][i - 1].link)
             /\ \A j \in 1..Len(calls[q]) :
                  Truthy(calls[q][j].link) =>
                    ~Contains(calls[r][i].text, calls[q][j].link)

C17_Witness ==
  /\ SameCheckoutTwice("r1", "r2")
  /\ responses["r1"] = <<Ack>> /\ responses["r2"] = <<Ack>>
  /\ \A r \in ConcRequests :
       /\ CountApi(r, "createChatInviteLink") = 1
       /\ CountApi(r, "sendMessage") = 1
       /\ calls[r][Len(calls[r])].result = "ok"


\* ------------------------------------------------------ claims C21 to C29
\* C21 (SpecBody): in every file version a correctly signed JSON request to
\* /stripe-webhook reaches the verification with its raw body and is not
\* rejected.
C21_RawBodyReachesVerification ==
  \A r \in Requests :
    (/\ pc[r] \notin {"idle", "middleware"}
     /\ event[r].sigValid
     /\ event[r].contentType = "application/json")
      => /\ loc[r].body = "buffer"
         /\ responses[r] = << >>


\* a delivery as Stripe makes it: a JSON body with the signature that
\* matches the endpoint's secret
SignedDelivery(r) ==
  event[r].sigValid /\ event[r].contentType = "application/json"

\* C22 (FairServed): every request to /stripe-webhook, of server.js
\* 326-381 and of part_001 492-557 as their files serve them, eventually
\* has exactly one response when every outbound call returns or throws:
\* the 400 for a request whose signature does not verify, the
\* acknowledgment for a correctly signed delivery, which is never rejected;
\* never none and never two.
C22_ExactlyOneResponse ==
  /\ [](\A r \in Requests :
          /\ Len(responses[r]) <= 1
          /\ responses[r] # << >> =>
               /\ pc[r] = "done"
               /\ SignedDelivery(r) => responses[r] = <<Ack>>
               /\ ~event[r].sigValid =>
                    responses[r] = <<[status |-> 400,
                                      body |-> "Webhook error"]>>)
  /\ \A r \in Requests : (pc[r] # "idle") ~> (Len(responses[r]) = 1)

\* C23 (Spec): the response to a verified event is sent only after every
\* outbound call made for it has returned or thrown: when the response is
\* out no call of the event is pending, and none is issued or answered
\* afterwards.
C23_ResponseAfterAllCalls ==
  /\ [](\A r \in Requests :
          (Verified(r) /\ responses[r] # << >>) =>
             \A i \in 1..Len(calls[r]) : calls[r][i].result # "pending")
  /\ [][\A r \in Requests :
          (Verified(r) /\ responses[r] # << >>) => calls'[r] = calls[r]]_vars

C23_Witness ==
  \E r \in Requests :
    /\ Verified(r)
    /\ responses[r] = <<Ack>>
    /\ Len(calls[r]) = 3
    /\ \A i \in 1..3 : calls[r][i].result # "pending"
    /\ calls[r][3].result = "throw"


\* the identity the buyer passed to /create-checkout-session, as a string
BoughtIdentity == String(event["r1"].body_telegramId)

\* C24 (SpecPurchase): for every telegramId accepted by the
\* /create-checkout-session of server.js 387-414, String(telegramId) is
\* attached to the session metadata and to the subscription metadata, and
\* the handler of server.js 326-381 recovers exactly that value from the
\* later checkout.session.completed and customer.subscription.deleted
\* events of the purchase: it is the recipient of the invite and the target
\* of the ban and unban.
C24_IdentityRoundTrip ==
  variant = "server_v2" =>
    /\ \A i \in 1..Len(calls["r1"]) :
         /\ calls["r1"][i].metadata_telegram_id = BoughtIdentity
         /\ calls["r1"][i].subscription_metadata_telegram_id = BoughtIdentity
         /\ JsTruthy(event["r1"].body_telegramId)
    /\ \A r \in Deliveries :
         /\ pc[r] \notin {"idle", "verify", "dispatch"} =>
              /\ loc[r].telegramId = BoughtIdentity
              /\ pc[r] \in {"respond", "done"} => calls[r] # << >>
         /\ \A i \in 1..Len(calls[r]) :
              /\ calls[r][i].api = "sendMessage" =>
                   calls[r][i].chat_id = BoughtIdentity
              /\ calls[r][i].api \in {"banChatMember", "unbanChatMember"} =>
                   calls[r][i].user_id = BoughtIdentity

C24_Witness ==
  /\ variant = "server_v2"
  /\ event["r1"].body_telegramId = JsNum("12345")
  /\ pc["r2"] = "done" /\ pc["r3"] = "done"
  /\ \E i \in 1..Len(calls["r2"]) :
       calls["r2"][i].api = "sendMessage" /\ calls["r2"][i].chat_id = "12345"
  /\ \E i \in 1..Len(calls["r3"]) :
       calls["r3"][i].api = "unbanChatMember" /\ calls["r3"][i].user_id = "12345"


\* C27 (SpecPurchase): in the first handler of server.js (38-97) the tier
\* label of the direct message follows the purchased price: a session that
\* the /create-checkout-session of lines 103-124 created with the generic
\* price yields the generic label, one created with the premium price the
\* premium label.
C27_LabelFollowsPurchasedPrice ==
  variant = "server_v1" =>
    \A i \in 1..Len(calls["r2"]) :
      calls["r2"][i].api = "sendMessage" =>
        /\ calls["r1"][1].price = GENERIC_PRICE_ID =>
             /\ Contains(calls["r2"][i].text, "Generic")
             /\ ~Contains(calls["r2"][i].text, "Premium")
        /\ calls["r1"][1].price = PREMIUM_PRICE_ID =>
             /\ Contains(calls["r2"][i].text, "Premium")
             /\ ~Contains(calls["r2"][i].text, "Generic")


\* the delivery r of a customer.subscription.deleted event for user T
Revoking(r, T) ==
  /\ pc[r] # "idle"
  /\ event[r].sigValid
  /\ event[r].type = "customer.subscription.deleted"
  /\ event[r].metadata_telegram_id = T

\* ... has been handled to the end with every call succeeding
Revoked(r, T) ==
  /\ Revoking(r, T)
  /\ pc[r] = "done"
  /\ \A i \in 1..Len(calls[r]) : calls[r][i].result = "ok"

\* C25 (SpecConc): when the same customer.subscription.deleted event is
\* handled twice, in any interleaving of the ban and unban calls of the two
\* handlers and with all calls succeeding, the group ends as after handling
\* it once: the member is outside the group and not banned.
C25_RevocationIdempotent ==
  \A T \in TelegramIds :
    \A r, q \in ConcRequests :
      (r # q /\ Revoked(r, T) /\ (Revoked(q, T) \/ ~Revoking(q, T)))
        => group[T] = "left"

C25_Witness ==
  /\ Revoked("r1", "12345") /\ Revoked("r2", "12345")
  /\ CountApi("r1", "unbanChatMember") = 1
  /\ CountApi("r2", "unbanChatMember") = 1
  /\ event["r1"] = event["r2"]
  /\ group["12345"] = "left"


\* the telegram_id metadata fields within reach of the handler of r: those
\* of the event's object and of the subscription behind it
IdentityFields(r) ==
  {event[r].metadata_telegram_id, event[r].subscription_metadata_telegram_id,
   stripeSub.metadata_telegram_id}

\* C26 (SpecA): the recipient of every invite message and the target of
\* every ban and unban is a value read from a telegram_id metadata field of
\* the event's session, invoice or subscription; no other field of the
\* payload is used as the chat identifier.
C26_RecipientFromMetadata ==
  \A r \in Requests :
    \A i \in 1..Len(calls[r]) :
      /\ calls[r][i].api = "sendMessage" =>
           calls[r][i].chat_id \in IdentityFields(r)
      /\ calls[r][i].api \in {"banChatMember", "unbanChatMember"} =>
           calls[r][i].user_id \in IdentityFields(r)


\* C28 (Spec): in the handler of server.js 326-381 a verified
\* invoice.payment_succeeded event never causes a messaging-platform call,
\* whatever identity and tier are resolved: no invite is created, no
\* message is sent, no ban or unban is issued, and the response is 200.
C28_RenewalOnlyLogged ==
  \A r \in Requests :
    (/\ variant = "server_v2"
     /\ Verified(r)
     /\ event[r].type = "invoice.payment_succeeded")
      => /\ MessagingCalls(r) = << >>
         /\ \A i \in 1..Len(calls[r]) : calls[r][i].api = "subscriptions.retrieve"
         /\ pc[r] = "done" => responses[r] = <<Ack>>
         /\ pc[r] # "done" => responses[r] = << >>

C28_Witness ==
  \E r \in Requests :
    /\ variant = "server_v2"
    /\ Verified(r)
    /\ event[r].type = "invoice.payment_succeeded"
    /\ pc[r] = "done"
    /\ loc[r].telegramId = "12345"
    /\ loc[r].tierLabel = PremiumLabel
    /\ Len(calls[r]) = 1 /\ calls[r][1].result = "ok"


\* C29 (SpecTelegram): the Telegram update endpoint answers every update
\* with status 200, exactly once, also when a call made while handling the
\* update (getMe, sendMessage, session creation, answerCallbackQuery) throws.
C29_UpdateAlwaysAnswered200 ==
  \A r \in Requests : event[r].route = "/telegram-webhook" =>
    /\ Len(responses[r]) <= 1
    /\ \A i \in 1..Len(responses[r]) : responses[r][i].status = 200
    /\ pc[r] = "done" <=> Len(responses[r]) = 1
    /\ responses[r] # << >> =>
         \A i \in 1..Len(calls[r]) : calls[r][i].result # "pending"

C29_Witness ==
  \E r \in Requests :
    /\ event[r].route = "/telegram-webhook"
    /\ pc[r] = "done"
    /\ Len(calls[r]) = 2
    /\ calls[r][2].result = "throw"
    /\ responses[r] = <<[status |-> 200, body |-> "ok:true"]>>

====
